---------------------------- MODULE Spec2Model ----------------------------
(***************************************************************************)
(* The two validation scripts of the repository,                           *)
(*   examples/with-validation/validate.py   (the schema validator) and     *)
(*   test/e2e-fixtures/validate.py          (the keyword validator),       *)
(* as one state machine: a process of either script is started with a      *)
(* value of AI_LAST_MESSAGE, runs its statements one after the other and   *)
(* exits; the same command may then be run again.                          *)
(*                                                                         *)
(* Text is a sequence of one-character strings, numbered from 0 as in      *)
(* Python (At, Slice).  A character that TLA+ cannot write is the string   *)
(* "U+<code point>".                                                       *)
(***************************************************************************)
EXTENDS Integers, Sequences, FiniteSets, TLC

(***************************************************************************)
(* Bounds of the model.                                                    *)
(***************************************************************************)
\* longest message of the exhaustive part of the input set
MaxLen == 3
\* most keys (or elements) of a generated JSON text
MaxKeys == 3
\* how far around the truncation limit the long messages reach
Slack == 2
\* how often the same command is run
MaxRuns == 2

(***************************************************************************)
(* Characters and the str methods the scripts use.                         *)
(***************************************************************************)
UpperCase == <<"A", "B", "C", "D", "E", "F", "G", "H", "I", "J", "K", "L", "M", "N", "O", "P", "Q", "R", "S", "T", "U", "V", "W", "X", "Y", "Z">>
LowerCase == <<"a", "b", "c", "d", "e", "f", "g", "h", "i", "j", "k", "l", "m", "n", "o", "p", "q", "r", "s", "t", "u", "v", "w", "x", "y", "z">>
Digit == <<"0", "1", "2", "3", "4", "5", "6", "7", "8", "9">>
HexDigit == <<"0", "1", "2", "3", "4", "5", "6", "7", "8", "9", "a", "b", "c", "d", "e", "f">>
Printable == <<" ", "!", "\"", "#", "$", "%", "&", "'", "(", ")", "*", "+", ",", "-", ".", "/", "0", "1", "2", "3", "4", "5", "6", "7", "8", "9", ":", ";", "<", "=", ">", "?", "@", "A", "B", "C", "D", "E", "F", "G", "H", "I", "J", "K", "L", "M", "N", "O", "P", "Q", "R", "S", "T", "U", "V", "W", "X", "Y", "Z", "[", "\\", "]", "^", "_", "U+96", "a", "b", "c", "d", "e", "f", "g", "h", "i", "j", "k", "l", "m", "n", "o", "p", "q", "r", "s", "t", "u", "v", "w", "x", "y", "z", "{", "|", "}", "~">>

Range(s) == {s[i] : i \in 1..Len(s)}

\* the index (from 1) of character c in the sequence s, 0 when it is not there
IndexOf(c, s) == IF c \in Range(s) THEN CHOOSE i \in 1..Len(s) : s[i] = c ELSE 0

\* the characters str.strip() removes (str.isspace), as far as the model writes them
PyWhitespace == {" ", "\t", "\n", "\r", "\f", "U+11", "U+28", "U+29", "U+30", "U+31", "U+133", "U+160"}

\* json.decoder.WHITESPACE
JsonWhitespace == {" ", "\t", "\n", "\r"}

\* the characters below U+0020, which a JSON string may not hold unescaped
ControlChars == {"\t", "\n", "\r", "\f"} \cup {"U+" \o ToString(n) : n \in (0..8) \cup {11} \cup (14..31)}

\* chr(n)
Chr(n) ==
    IF n >= 32 /\ n <= 126 THEN Printable[n - 31]
    ELSE IF n = 9 THEN "\t"
    ELSE IF n = 10 THEN "\n"
    ELSE IF n = 12 THEN "\f"
    ELSE IF n = 13 THEN "\r"
    ELSE "U+" \o ToString(n)

\* s[i], the empty string past the end (s[i:i+1])
At(s, i) == IF i >= 0 /\ i < Len(s) THEN s[i + 1] ELSE ""

\* s[i:j]
Slice(s, i, j) ==
    LET hi == IF j < Len(s) THEN j ELSE Len(s)
    IN  IF i >= hi THEN <<>> ELSE SubSeq(s, i + 1, hi)

\* str.lower() of one character
LowerChar(c) == IF IndexOf(c, UpperCase) > 0 THEN LowerCase[IndexOf(c, UpperCase)] ELSE c

\* str.lower()
lower(s) == [i \in 1..Len(s) |-> LowerChar(s[i])]

RECURSIVE lstrip(_)
lstrip(s) == IF s # <<>> /\ Head(s) \in PyWhitespace THEN lstrip(Tail(s)) ELSE s

RECURSIVE rstrip(_)
rstrip(s) == IF s # <<>> /\ s[Len(s)] \in PyWhitespace THEN rstrip(SubSeq(s, 1, Len(s) - 1)) ELSE s

\* strip as it would be had the script tested the message itself (if not message)
strip_Omitted(s) == s

\* str.strip()
strip(s) == rstrip(lstrip(s))

\* sub in s, for two strings
StrIn(sub, s) == \E i \in 0..(Len(s) - Len(sub)) : Slice(s, i, i + Len(sub)) = sub

\* sep.join(parts)
RECURSIVE join(_, _)
join(sep, parts) ==
    IF parts = <<>> THEN <<>>
    ELSE IF Len(parts) = 1 THEN parts[1]
    ELSE parts[1] \o sep \o join(sep, Tail(parts))

\* str(n) for n >= 0
RECURSIVE str(_)
str(n) == IF n < 10 THEN <<Digit[n + 1]>> ELSE str(n \div 10) \o <<Digit[(n % 10) + 1]>>

\* s.count(c, 0, pos)
count(s, c, pos) == Cardinality({i \in 0..(pos - 1) : At(s, i) = c})

(***************************************************************************)
(* json.loads, as the standard decoder computes it: a value [t, s, items]  *)
(* (the type, the text of a str, and the keys of a dict or the elements of *)
(* a list, each as [t, s]) or a JSONDecodeError with its message and the   *)
(* position it points at.  What the value drops (the numbers' values, the  *)
(* values under the keys, the insides of nested containers) no statement   *)
(* of the scripts reads.                                                   *)
(***************************************************************************)
Val(t, s, items) == [t |-> t, s |-> s, items |-> items]

Ok(val, end) == [ok |-> TRUE, val |-> val, end |-> end, msg |-> <<>>, pos |-> 0]

\* raise JSONDecodeError(msg, s, pos)
Fail(msg, pos) == [ok |-> FALSE, val |-> Val("none", <<>>, <<>>), end |-> 0, msg |-> msg, pos |-> pos]

\* WHITESPACE.match(s, i).end()
RECURSIVE SkipWs(_, _)
SkipWs(s, i) ==
    IF i >= Len(s) THEN Len(s)
    ELSE IF s[i + 1] \in JsonWhitespace THEN SkipWs(s, i + 1)
    ELSE i

IsDigit(c) == IndexOf(c, Digit) > 0

\* the end of the run of digits that starts at i
RECURSIVE DigitsEnd(_, _)
DigitsEnd(s, i) == IF IsDigit(At(s, i)) THEN DigitsEnd(s, i + 1) ELSE i

\* NUMBER_RE, the integer part from idx: its end, -1 when there is none
IntEnd(s, idx) ==
    LET i0 == IF At(s, idx) = "-" THEN idx + 1 ELSE idx
    IN  IF At(s, i0) = "0" THEN i0 + 1
        ELSE IF IsDigit(At(s, i0)) THEN DigitsEnd(s, i0 + 1)
        ELSE -1

\* NUMBER_RE, the optional fraction from i
FracEnd(s, i) == IF At(s, i) = "." /\ IsDigit(At(s, i + 1)) THEN DigitsEnd(s, i + 2) ELSE i

\* NUMBER_RE, the optional exponent from i
ExpEnd(s, i) ==
    LET j == IF At(s, i + 1) \in {"+", "-"} THEN i + 2 ELSE i + 1
    IN  IF At(s, i) \in {"e", "E"} /\ IsDigit(At(s, j)) THEN DigitsEnd(s, j + 1) ELSE i

NumberMatch(i1, i3) == [end |-> i3, float |-> i3 > i1]

\* NUMBER_RE.match(s, idx): [end, float], end = -1 when there is no match
match_number(s, idx) ==
    IF IntEnd(s, idx) = -1 THEN [end |-> -1, float |-> FALSE]
    ELSE NumberMatch(IntEnd(s, idx), ExpEnd(s, FracEnd(s, IntEnd(s, idx))))

\* the value of a hexadecimal digit, -1 for any other character
HexVal(c) == IndexOf(LowerChar(c), HexDigit) - 1

\* BACKSLASH, the one-character escapes
Backslash(esc) ==
    CASE esc = "\"" -> "\""
      [] esc = "\\" -> "\\"
      [] esc = "/"  -> "/"
      [] esc = "b"  -> Chr(8)
      [] esc = "f"  -> "\f"
      [] esc = "n"  -> "\n"
      [] esc = "r"  -> "\r"
      [] esc = "t"  -> "\t"
      [] OTHER      -> ""

\* scanstring(s, end), from the character after the opening quote (begin + 1);
\* a surrogate pair stays two characters
RECURSIVE ScanChunk(_, _, _, _)
ScanChunk(s, begin, i, acc) ==
    LET c == At(s, i)
        esc == At(s, i + 1)
        h == [k \in 1..4 |-> HexVal(At(s, i + 1 + k))]
    IN  IF c = "" THEN Fail(<<"U", "n", "t", "e", "r", "m", "i", "n", "a", "t", "e", "d", " ", "s", "t", "r", "i", "n", "g", " ", "s", "t", "a", "r", "t", "i", "n", "g", " ", "a", "t">>, begin)
        ELSE IF c = "\"" THEN Ok(Val("str", acc, <<>>), i + 1)
        ELSE IF c \in ControlChars THEN Fail(<<"I", "n", "v", "a", "l", "i", "d", " ", "c", "o", "n", "t", "r", "o", "l", " ", "c", "h", "a", "r", "a", "c", "t", "e", "r", " ", "a", "t">>, i)
        ELSE IF c # "\\" THEN ScanChunk(s, begin, i + 1, Append(acc, c))
        ELSE IF esc = "" THEN Fail(<<"U", "n", "t", "e", "r", "m", "i", "n", "a", "t", "e", "d", " ", "s", "t", "r", "i", "n", "g", " ", "s", "t", "a", "r", "t", "i", "n", "g", " ", "a", "t">>, begin)
        ELSE IF esc # "u" THEN
            IF Backslash(esc) = "" THEN Fail(<<"I", "n", "v", "a", "l", "i", "d", " ", "\\", "e", "s", "c", "a", "p", "e">>, i)
            ELSE ScanChunk(s, begin, i + 2, Append(acc, Backslash(esc)))
        ELSE IF i + 6 >= Len(s) \/ \E k \in 1..4 : h[k] = -1 THEN Fail(<<"I", "n", "v", "a", "l", "i", "d", " ", "\\", "u", "X", "X", "X", "X", " ", "e", "s", "c", "a", "p", "e">>, i + 1)
        ELSE ScanChunk(s, begin, i + 6, Append(acc, Chr(((h[1] * 16 + h[2]) * 16 + h[3]) * 16 + h[4])))

scanstring(s, end) == ScanChunk(s, end - 1, end, <<>>)

RECURSIVE scan_once(_, _)
RECURSIVE ObjectLoop(_, _, _)
RECURSIVE ArrayLoop(_, _, _)

\* JSONObject, after a value: "}" ends the object, "," and a quote start the next key
ObjectKey(s, e4, pairs) ==
    IF At(s, e4) # "\"" THEN Fail(<<"E", "x", "p", "e", "c", "t", "i", "n", "g", " ", "p", "r", "o", "p", "e", "r", "t", "y", " ", "n", "a", "m", "e", " ", "e", "n", "c", "l", "o", "s", "e", "d", " ", "i", "n", " ", "d", "o", "u", "b", "l", "e", " ", "q", "u", "o", "t", "e", "s">>, e4)
    ELSE ObjectLoop(s, e4 + 1, pairs)

ObjectSep(s, e3, pairs) ==
    IF At(s, e3) = "}" THEN Ok(Val("dict", <<>>, pairs), e3 + 1)
    ELSE IF At(s, e3) # "," THEN Fail(<<"E", "x", "p", "e", "c", "t", "i", "n", "g", " ", "'", ",", "'", " ", "d", "e", "l", "i", "m", "i", "t", "e", "r">>, e3)
    ELSE ObjectKey(s, SkipWs(s, e3 + 1), pairs)

\* JSONObject, the value v of a key
ObjectValue(s, v, pairs) == IF ~v.ok THEN v ELSE ObjectSep(s, SkipWs(s, v.end), pairs)

\* JSONObject, the colon after a key
ObjectColon(s, e1, pairs) ==
    IF At(s, e1) # ":" THEN Fail(<<"E", "x", "p", "e", "c", "t", "i", "n", "g", " ", "'", ":", "'", " ", "d", "e", "l", "i", "m", "i", "t", "e", "r">>, e1)
    ELSE ObjectValue(s, scan_once(s, SkipWs(s, e1 + 1)), pairs)

\* JSONObject, the key k
ObjectPair(s, k, pairs) ==
    IF ~k.ok THEN k ELSE ObjectColon(s, SkipWs(s, k.end), Append(pairs, [t |-> "key", s |-> k.val.s]))

\* the loop of JSONObject, from the character after the quote that opens a key
ObjectLoop(s, end, pairs) == ObjectPair(s, scanstring(s, end), pairs)

ObjectFirst(s, e1) ==
    IF At(s, e1) = "}" THEN Ok(Val("dict", <<>>, <<>>), e1 + 1)
    ELSE IF At(s, e1) # "\"" THEN Fail(<<"E", "x", "p", "e", "c", "t", "i", "n", "g", " ", "p", "r", "o", "p", "e", "r", "t", "y", " ", "n", "a", "m", "e", " ", "e", "n", "c", "l", "o", "s", "e", "d", " ", "i", "n", " ", "d", "o", "u", "b", "l", "e", " ", "q", "u", "o", "t", "e", "s">>, e1)
    ELSE ObjectLoop(s, e1 + 1, <<>>)

\* JSONObject((s, end)), from the character after the brace
JSONObject(s, end) == ObjectFirst(s, SkipWs(s, end))

\* JSONArray, after an element: "]" ends the array, "," starts the next element
ArraySep(s, e1, values) ==
    IF At(s, e1) = "]" THEN Ok(Val("list", <<>>, values), e1 + 1)
    ELSE IF At(s, e1) # "," THEN Fail(<<"E", "x", "p", "e", "c", "t", "i", "n", "g", " ", "'", ",", "'", " ", "d", "e", "l", "i", "m", "i", "t", "e", "r">>, e1)
    ELSE ArrayLoop(s, SkipWs(s, e1 + 1), values)

\* JSONArray, the element v
ArrayValue(s, v, values) ==
    IF ~v.ok THEN v ELSE ArraySep(s, SkipWs(s, v.end), Append(values, [t |-> v.val.t, s |-> v.val.s]))

\* the loop of JSONArray, from the first character of an element
ArrayLoop(s, end, values) == ArrayValue(s, scan_once(s, end), values)

ArrayFirst(s, e1) ==
    IF At(s, e1) = "]" THEN Ok(Val("list", <<>>, <<>>), e1 + 1)
    ELSE ArrayLoop(s, e1, <<>>)

\* JSONArray((s, end)), from the character after the bracket
JSONArray(s, end) == ArrayFirst(s, SkipWs(s, end))

\* scan_once, the number and the constants that start with other characters
ScanNumber(s, idx, m) ==
    IF m.end # -1 THEN Ok(Val(IF m.float THEN "float" ELSE "int", <<>>, <<>>), m.end)
    ELSE IF Slice(s, idx, idx + 3) = <<"N", "a", "N">> THEN Ok(Val("float", <<>>, <<>>), idx + 3)
    ELSE IF Slice(s, idx, idx + 8) = <<"I", "n", "f", "i", "n", "i", "t", "y">> THEN Ok(Val("float", <<>>, <<>>), idx + 8)
    ELSE IF Slice(s, idx, idx + 9) = <<"-", "I", "n", "f", "i", "n", "i", "t", "y">> THEN Ok(Val("float", <<>>, <<>>), idx + 9)
    ELSE Fail(<<"E", "x", "p", "e", "c", "t", "i", "n", "g", " ", "v", "a", "l", "u", "e">>, idx)

\* scan_once(s, idx); StopIteration(idx) is the JSONDecodeError every caller makes of it
scan_once(s, idx) ==
    IF At(s, idx) = "" THEN Fail(<<"E", "x", "p", "e", "c", "t", "i", "n", "g", " ", "v", "a", "l", "u", "e">>, idx)
    ELSE IF At(s, idx) = "\"" THEN scanstring(s, idx + 1)
    ELSE IF At(s, idx) = "{" THEN JSONObject(s, idx + 1)
    ELSE IF At(s, idx) = "[" THEN JSONArray(s, idx + 1)
    ELSE IF Slice(s, idx, idx + 4) = <<"n", "u", "l", "l">> THEN Ok(Val("NoneType", <<>>, <<>>), idx + 4)
    ELSE IF Slice(s, idx, idx + 4) = <<"t", "r", "u", "e">> THEN Ok(Val("bool", <<>>, <<>>), idx + 4)
    ELSE IF Slice(s, idx, idx + 5) = <<"f", "a", "l", "s", "e">> THEN Ok(Val("bool", <<>>, <<>>), idx + 5)
    ELSE ScanNumber(s, idx, match_number(s, idx))

\* JSONDecoder.decode, after raw_decode: only whitespace may follow the value
DecodeEnd(s, r, end) == IF end # Len(s) THEN Fail(<<"E", "x", "t", "r", "a", " ", "d", "a", "t", "a">>, end) ELSE r

Decode(s, r) == IF ~r.ok THEN r ELSE DecodeEnd(s, r, SkipWs(s, r.end))

\* json.loads(s)
loads(s) ==
    IF At(s, 0) = "U+65279" THEN Fail(<<"U", "n", "e", "x", "p", "e", "c", "t", "e", "d", " ", "U", "T", "F", "-", "8", " ", "B", "O", "M", " ", "(", "d", "e", "c", "o", "d", "e", " ", "u", "s", "i", "n", "g", " ", "u", "t", "f", "-", "8", "-", "s", "i", "g", ")">>, 0)
    ELSE Decode(s, scan_once(s, SkipWs(s, 0)))

\* doc.rindex("\n", 0, pos), -1 when there is no line feed before pos
rindex(doc, pos) ==
    LET at == {i \in 0..(pos - 1) : At(doc, i) = "\n"}
    IN  IF at = {} THEN -1 ELSE CHOOSE i \in at : \A j \in at : j <= i

\* str(e) of JSONDecodeError(msg, doc, pos)
ErrorDetail(msg, doc, pos) ==
    LET lineno == count(doc, "\n", pos) + 1
        colno == IF rindex(doc, pos) = -1 THEN pos + 1 ELSE pos - rindex(doc, pos)
    IN  msg \o <<":", " ", "l", "i", "n", "e", " ">> \o str(lineno) \o <<" ", "c", "o", "l", "u", "m", "n", " ">> \o str(colno) \o <<" ", "(", "c", "h", "a", "r", " ">> \o str(pos) \o <<")">>

(***************************************************************************)
(* The values of AI_LAST_MESSAGE the model runs the scripts on.            *)
(***************************************************************************)
Alphabet == <<" ", "\n", "1", "[", "]", "\"", "h", "I">>

\* every text of at most MaxLen characters of Alphabet
ShortTexts == UNION {[1..k -> Range(Alphabet)] : k \in 0..MaxLen}

FieldPool == <<<<"n", "a", "m", "e">>, <<"d", "e", "s", "c", "r", "i", "p", "t", "i", "o", "n">>, <<"l", "a", "n", "g", "u", "a", "g", "e">>, <<"i", "d">>>>

ValuePool == <<<<"1">>, <<"\"", "v", "\"">>, <<"n", "u", "l", "l">>, <<"[", "t", "r", "u", "e", ",", " ", "-", "2", ".", "5", "e", "3", "]">>>>

Separators == {<<",", " ">>, <<",", "\n">>}

\* every list of at most MaxKeys names of FieldPool, in every order, repeats included
KeyLists == UNION {[1..k -> Range(FieldPool)] : k \in 0..MaxKeys}

Quoted(s) == <<"\"">> \o s \o <<"\"">>

\* a JSON object with the keys ks, in that order
ObjectText(ks, sep) ==
    <<"{">> \o join(sep, [i \in 1..Len(ks) |-> Quoted(ks[i]) \o <<":", " ">> \o ValuePool[((i - 1) % Len(ValuePool)) + 1]]) \o <<"}">>

\* a JSON array of the strings ks
ArrayText(ks, sep) == <<"[">> \o join(sep, [i \in 1..Len(ks) |-> Quoted(ks[i])]) \o <<"]">>

\* a JSON string that holds the names ks
StringText(ks) == Quoted(join(<<" ">>, ks))

JsonTexts ==
    {ObjectText(ks, sep) : ks \in KeyLists, sep \in Separators}
        \cup {ArrayText(ks, sep) : ks \in KeyLists, sep \in Separators}
        \cup {StringText(ks) : ks \in KeyLists}

\* the number of characters of the message that the keyword validator echoes
TruncLimit == 200

Repeat(c, n) == [i \in 1..n |-> c]

\* texts about as long as the truncation limit, with and without a keyword or a line feed at the end
LongTexts ==
    {Repeat(c, n) \o tail : c \in {"x", "Q"}, n \in (TruncLimit - Slack)..(TruncLimit + Slack),
                           tail \in {<<>>, <<"h", "i">>, <<".", "P", "Y">>, <<"\n", "z">>}}

\* single texts: those the documentation names, and one for each kind of JSON value and of decoding error
Examples ==
    { <<"{", "\"", "n", "a", "m", "e", "\"", ":", "\"", "a", "\"", ",", "\"", "d", "e", "s", "c", "r", "i", "p", "t", "i", "o", "n", "\"", ":", "\"", "b", "\"", ",", "\"", "l", "a", "n", "g", "u", "a", "g", "e", "\"", ":", "\"", "c", "\"", "}">>,
      <<"{", "\"", "n", "a", "m", "e", "\"", ":", "\"", "a", "\"", "}">>,
      <<"n", "o", "t", " ", "j", "s", "o", "n">>,
      <<"C", "r", "e", "a", "t", "e", "d", " ", "a", " ", "n", "e", "w", " ", "t", "e", "s", "t", ".", "p", "y", " ", "f", "i", "l", "e">>,
      <<"x", "y", "z", " ", "a", "b", "c", " ", "1", "2", "3">>,
      <<"4", "2">>, <<"-", "0">>, <<"0", "1">>, <<"-">>, <<"1", ".", "5">>, <<"1", ".">>, <<"2", "e", "5">>, <<"2", "e">>, <<"t", "r", "u", "e">>, <<"f", "a", "l", "s", "e">>, <<"n", "u", "l", "l">>, <<"n", "u", "l">>,
      <<"N", "a", "N">>, <<"I", "n", "f", "i", "n", "i", "t", "y">>, <<"-", "I", "n", "f", "i", "n", "i", "t", "y">>, <<" ", "7", " ">>,
      <<"{", "}">>, <<"{", " ", "}">>, <<"[", " ", "]">>, <<"{", "\"", "n", "a", "m", "e", "\"", " ", "1", "}">>, <<"{", "\"", "n", "a", "m", "e", "\"", ":", "}">>, <<"{", "\"", "n", "a", "m", "e", "\"", ":", "1", ",", "}">>, <<"{", "\"", "n", "a", "m", "e", "\"", ":", "1", " ", "\"", "x", "\"", ":", "2", "}">>, <<"{", "n", "a", "m", "e", ":", "1", "}">>,
      <<"{", "\"", "n", "a", "m", "e", "\"", ":", "1", "}", " ", "x">>, <<"[", "1", ",", "]">>, <<"[", "1", " ", "2", "]">>, <<"[", "[", "\"", "n", "a", "m", "e", "\"", ",", "\"", "d", "e", "s", "c", "r", "i", "p", "t", "i", "o", "n", "\"", ",", "\"", "l", "a", "n", "g", "u", "a", "g", "e", "\"", "]", "]">>,
      <<"{", "\"", "a", "\"", ":", "{", "\"", "n", "a", "m", "e", "\"", ":", "1", ",", "\"", "d", "e", "s", "c", "r", "i", "p", "t", "i", "o", "n", "\"", ":", "2", ",", "\"", "l", "a", "n", "g", "u", "a", "g", "e", "\"", ":", "3", "}", "}">>,
      <<"{", "\"", "N", "a", "m", "e", "\"", ":", "1", ",", "\"", "D", "E", "S", "C", "R", "I", "P", "T", "I", "O", "N", "\"", ":", "2", ",", "\"", "L", "a", "n", "g", "u", "a", "g", "e", "\"", ":", "3", "}">>,
      <<"{", "\"", "n", "a", "m", "e", "\"", ":", "1", ",", "\"", "d", "e", "s", "c", "r", "i", "p", "t", "i", "o", "n", "\"", ":", "2", ",", "\"", "l", "a", "n", "g", "u", "a", "g", "e", "\"", ":", "3", "}">>,
      <<"\"", "n", "a", "\\", "m", "e", "\"">>, <<"\"", "\\", "u", "0", "0", "z", "z", "\"">>, <<"\"", "A">>, <<"\"", "a", "\\", "/", "b", "\\", "n", "\"">>, <<"\"", "a", "b", "c">>, <<"\"", "n", "a", "m", "e", " ", "d", "e", "s", "c", "r", "i", "p", "t", "i", "o", "n", " ", "l", "a", "n", "g", "u", "a", "g", "e">>,
      <<"\"", "a", "\t", "b", "\"">>, <<"\f">>, <<"\f", "1">>, <<"1", "\f">>, <<"\t", "\r", "\n">>, <<"U+160">>,
      <<"U+65279", "1">>, <<"{", "\r", "\n", "}">>, <<"[", "\n", "\n", " ", "x">>,
      <<"S", "a", "y", " ", "H", "E", "L", "L", "O">>, <<"W", "O", "R", "K", "F", "L", "O", "W">>, <<"D", "i", "r", "e", "c", "t", "o", "r", "y">>, <<"r", "e", "a", "d", "m", "e", ".", "M", "D">>, <<"a", "p", "p", ".", "J", "s">>, <<"a", "r", "c", "h", "i", "v", "e">>, <<"t", "s", "e", "t">>, <<"h", " ", "i">>,
      <<"t", "e", "\n", "s", "t">>, <<"a", "\n", "b", "\n">>, <<"m", "d", "p", "y", "j", "s">> }

Messages == ShortTexts \cup JsonTexts \cup LongTexts \cup Examples

\* the environment of a process: AI_LAST_MESSAGE unset, or set to a message
Environments == {[set |-> FALSE, val |-> <<>>]} \cup {[set |-> TRUE, val |-> m] : m \in Messages}

Scripts == {"schema", "keyword"}

(***************************************************************************)
(* The state of a run.                                                     *)
(***************************************************************************)
VARIABLES
    script,        \* which validate.py the command runs
    env,           \* AI_LAST_MESSAGE in the environment of the process
    message,       \* schema validator: message
    data,          \* schema validator: data
    e,             \* schema validator: the JSONDecodeError raised and not yet handled
    missing,       \* schema validator: missing
    last_message,  \* keyword validator: last_message
    stdout,        \* the characters written to standard output
    traceback,     \* the type of the uncaught exception reported on standard error, "" for none
    status,        \* the exit status, -1 while the process runs
    pc,            \* the statement the process is at
    visited,       \* the statements the process has been at
    run,           \* the number of this run of the command
    prev           \* what the run before this one printed and returned

vars == <<script, env, message, data, e, missing, last_message, stdout, traceback, status, pc, visited, run, prev>>

NoValue == Val("none", <<>>, <<>>)

NoError == [msg |-> <<>>, pos |-> 0]

NoRun == [stdout |-> <<>>, traceback |-> "", status |-> -1]

Init ==
    /\ script \in Scripts
    /\ env \in Environments
    /\ message = <<>>
    /\ data = NoValue
    /\ e = NoError
    /\ missing = <<>>
    /\ last_message = <<>>
    /\ stdout = <<>>
    /\ traceback = ""
    /\ status = -1
    /\ pc = "start"
    /\ visited = {"start"}
    /\ run = 1
    /\ prev = NoRun

\* os.environ.get("AI_LAST_MESSAGE", "")
environ_get == IF env.set THEN env.val ELSE <<>>

\* print(line)
print(line) == stdout' = stdout \o line \o <<"\n">>

Goto(label) == pc' = label /\ visited' = visited \cup {label}

(***************************************************************************)
(* examples/with-validation/validate.py                                    *)
(***************************************************************************)
RequiredFields == <<<<"n", "a", "m", "e">>, <<"d", "e", "s", "c", "r", "i", "p", "t", "i", "o", "n">>, <<"l", "a", "n", "g", "u", "a", "g", "e">>>>

\* the types of data for which "f in data" is defined
Containers == {"dict", "list", "str"}

\* f in d
In(f, d) ==
    CASE d.t = "dict" -> \E i \in 1..Len(d.items) : d.items[i].s = f
      [] d.t = "list" -> \E i \in 1..Len(d.items) : d.items[i].t = "str" /\ d.items[i].s = f
      [] d.t = "str"  -> StrIn(f, d.s)

\* MissingFields as it would be had the names been gone through in alphabetical order
MissingFields_Sorted(d) == SelectSeq(<<<<"d", "e", "s", "c", "r", "i", "p", "t", "i", "o", "n">>, <<"l", "a", "n", "g", "u", "a", "g", "e">>, <<"n", "a", "m", "e">>>>, LAMBDA f : ~In(f, d))

\* [f for f in ("name", "description", "language") if f not in d]
MissingFields(d) == SelectSeq(RequiredFields, LAMBDA f : ~In(f, d))

\* line 4
SchemaReadEnv ==
    /\ script = "schema" /\ pc = "start"
    /\ message' = environ_get
    /\ Goto("if_blank")
    /\ UNCHANGED <<script, env, data, e, missing, last_message, stdout, traceback, status, run, prev>>

\* lines 6-7
SchemaNoOutput ==
    /\ script = "schema" /\ pc = "if_blank"
    /\ strip(message) = <<>>
    /\ print(<<"N", "o", " ", "o", "u", "t", "p", "u", "t", " ", "r", "e", "c", "e", "i", "v", "e", "d", " ", "f", "r", "o", "m", " ", "A", "I">>)
    /\ Goto("end")
    /\ UNCHANGED <<script, env, message, data, e, missing, last_message, traceback, status, run, prev>>

\* lines 6, 8-9
SchemaTry ==
    /\ script = "schema" /\ pc = "if_blank"
    /\ strip(message) # <<>>
    /\ Goto("loads")
    /\ UNCHANGED <<script, env, message, data, e, missing, last_message, stdout, traceback, status, run, prev>>

\* line 10, json.loads returns
SchemaLoads ==
    /\ script = "schema" /\ pc = "loads"
    /\ loads(message).ok
    /\ data' = loads(message).val
    /\ Goto("fields")
    /\ UNCHANGED <<script, env, message, e, missing, last_message, stdout, traceback, status, run, prev>>

\* SchemaRaise as it would be had the except clause named another exception
SchemaRaise_Uncaught ==
    /\ script = "schema" /\ pc = "loads"
    /\ ~loads(message).ok
    /\ traceback' = "JSONDecodeError"
    /\ status' = 1
    /\ Goto("done")
    /\ UNCHANGED <<script, env, message, data, e, missing, last_message, stdout, run, prev>>

\* line 10, json.loads raises JSONDecodeError
SchemaRaise ==
    /\ script = "schema" /\ pc = "loads"
    /\ ~loads(message).ok
    /\ e' = [msg |-> loads(message).msg, pos |-> loads(message).pos]
    /\ Goto("except")
    /\ UNCHANGED <<script, env, message, data, missing, last_message, stdout, traceback, status, run, prev>>

\* lines 16-17
SchemaExcept ==
    /\ script = "schema" /\ pc = "except"
    /\ print(<<"O", "u", "t", "p", "u", "t", " ", "i", "s", " ", "n", "o", "t", " ", "v", "a", "l", "i", "d", " ", "J", "S", "O", "N", ":", " ">> \o ErrorDetail(e.msg, message, e.pos))
    /\ e' = NoError
    /\ Goto("end")
    /\ UNCHANGED <<script, env, message, data, missing, last_message, traceback, status, run, prev>>

\* line 11
SchemaFields ==
    /\ script = "schema" /\ pc = "fields"
    /\ data.t \in Containers
    /\ missing' = MissingFields(data)
    /\ Goto("if_missing")
    /\ UNCHANGED <<script, env, message, data, e, last_message, stdout, traceback, status, run, prev>>

\* line 11, "f not in data" raises TypeError, which no except clause of the script takes
SchemaTypeError ==
    /\ script = "schema" /\ pc = "fields"
    /\ data.t \notin Containers
    /\ traceback' = "TypeError"
    /\ status' = 1
    /\ Goto("done")
    /\ UNCHANGED <<script, env, message, data, e, missing, last_message, stdout, run, prev>>

\* lines 12-13
SchemaMissing ==
    /\ script = "schema" /\ pc = "if_missing"
    /\ missing # <<>>
    /\ print(<<"M", "i", "s", "s", "i", "n", "g", " ", "r", "e", "q", "u", "i", "r", "e", "d", " ", "f", "i", "e", "l", "d", "s", ":", " ">> \o join(<<",", " ">>, missing))
    /\ Goto("end")
    /\ UNCHANGED <<script, env, message, data, e, missing, last_message, traceback, status, run, prev>>

\* lines 12, 14-15
SchemaTrue ==
    /\ script = "schema" /\ pc = "if_missing"
    /\ missing = <<>>
    /\ print(<<"t", "r", "u", "e">>)
    /\ Goto("end")
    /\ UNCHANGED <<script, env, message, data, e, missing, last_message, traceback, status, run, prev>>

(***************************************************************************)
(* test/e2e-fixtures/validate.py                                           *)
(***************************************************************************)
keywords == <<<<"f", "i", "l", "e">>, <<"d", "i", "r", "e", "c", "t", "o", "r", "y">>, <<"h", "e", "l", "l", "o">>, <<"h", "i">>, <<"t", "e", "s", "t">>, <<"w", "o", "r", "k", "f", "l", "o", "w">>, <<".", "m", "d">>, <<".", "p", "y">>, <<".", "j", "s">>>>

\* AnyKeyword as it would be had the message not been lower-cased
AnyKeyword_CaseSensitive(s) == \E i \in 1..Len(keywords) : StrIn(lower(keywords[i]), s)

\* any(keyword.lower() in s.lower() for keyword in keywords)
AnyKeyword(s) == \E i \in 1..Len(keywords) : StrIn(lower(keywords[i]), lower(s))

\* Echo as it would be had the message not been cut
Echo_Whole(s) == s

\* last_message[:200]
Echo(s) == Slice(s, 0, TruncLimit)

\* line 5
KeywordReadEnv ==
    /\ script = "keyword" /\ pc = "start"
    /\ last_message' = environ_get
    /\ Goto("if_empty")
    /\ UNCHANGED <<script, env, message, data, e, missing, stdout, traceback, status, run, prev>>

\* lines 7-8
KeywordNoResponse ==
    /\ script = "keyword" /\ pc = "if_empty"
    /\ last_message = <<>>
    /\ print(<<"N", "o", " ", "A", "I", " ", "r", "e", "s", "p", "o", "n", "s", "e", " ", "r", "e", "c", "e", "i", "v", "e", "d">>)
    /\ Goto("sys_exit")
    /\ UNCHANGED <<script, env, message, data, e, missing, last_message, traceback, status, run, prev>>

\* KeywordSysExit as it would be had sys.exit(0) been left out
KeywordSysExit_FallThrough ==
    /\ script = "keyword" /\ pc = "sys_exit"
    /\ Goto("any")
    /\ UNCHANGED <<script, env, message, data, e, missing, last_message, stdout, traceback, status, run, prev>>

\* line 9
KeywordSysExit ==
    /\ script = "keyword" /\ pc = "sys_exit"
    /\ status' = 0
    /\ Goto("done")
    /\ UNCHANGED <<script, env, message, data, e, missing, last_message, stdout, traceback, run, prev>>

\* lines 7, 11
KeywordSearch ==
    /\ script = "keyword" /\ pc = "if_empty"
    /\ last_message # <<>>
    /\ Goto("any")
    /\ UNCHANGED <<script, env, message, data, e, missing, last_message, stdout, traceback, status, run, prev>>

\* lines 12-13
KeywordTrue ==
    /\ script = "keyword" /\ pc = "any"
    /\ AnyKeyword(last_message)
    /\ print(<<"t", "r", "u", "e">>)
    /\ Goto("end")
    /\ UNCHANGED <<script, env, message, data, e, missing, last_message, traceback, status, run, prev>>

\* lines 12, 14-15
KeywordExpected ==
    /\ script = "keyword" /\ pc = "any"
    /\ ~AnyKeyword(last_message)
    /\ print(<<"E", "x", "p", "e", "c", "t", "e", "d", " ", "k", "e", "y", "w", "o", "r", "d", "s", " ", "b", "u", "t", " ", "g", "o", "t", ":", " ">> \o Echo(last_message) \o <<".", ".", ".">>)
    /\ Goto("end")
    /\ UNCHANGED <<script, env, message, data, e, missing, last_message, traceback, status, run, prev>>

(***************************************************************************)
(* The end of a process, and the next run of the same command.             *)
(***************************************************************************)
\* the interpreter runs off the end of the script
Finish ==
    /\ pc = "end"
    /\ status' = 0
    /\ Goto("done")
    /\ UNCHANGED <<script, env, message, data, e, missing, last_message, stdout, traceback, run, prev>>

\* Rerun as it would be if a run found what the run before it had written
Rerun_KeepsOutput ==
    /\ pc = "done"
    /\ run < MaxRuns
    /\ run' = run + 1
    /\ prev' = [stdout |-> stdout, traceback |-> traceback, status |-> status]
    /\ message' = <<>>
    /\ data' = NoValue
    /\ e' = NoError
    /\ missing' = <<>>
    /\ last_message' = <<>>
    /\ traceback' = ""
    /\ status' = -1
    /\ pc' = "start"
    /\ visited' = {"start"}
    /\ UNCHANGED <<script, env, stdout>>

\* the same script is run again with the same value of AI_LAST_MESSAGE: a new
\* process, with nothing of the earlier one but the command and its environment
Rerun ==
    /\ pc = "done"
    /\ run < MaxRuns
    /\ run' = run + 1
    /\ prev' = [stdout |-> stdout, traceback |-> traceback, status |-> status]
    /\ message' = <<>>
    /\ data' = NoValue
    /\ e' = NoError
    /\ missing' = <<>>
    /\ last_message' = <<>>
    /\ stdout' = <<>>
    /\ traceback' = ""
    /\ status' = -1
    /\ pc' = "start"
    /\ visited' = {"start"}
    /\ UNCHANGED <<script, env>>

Next ==
    \/ SchemaReadEnv
    \/ SchemaNoOutput
    \/ SchemaTry
    \/ SchemaLoads
    \/ SchemaRaise
    \/ SchemaExcept
    \/ SchemaFields
    \/ SchemaTypeError
    \/ SchemaMissing
    \/ SchemaTrue
    \/ KeywordReadEnv
    \/ KeywordNoResponse
    \/ KeywordSysExit
    \/ KeywordSearch
    \/ KeywordTrue
    \/ KeywordExpected
    \/ Finish
    \/ Rerun

Spec == Init /\ [][Next]_vars

(***************************************************************************)
(* What the claims speak of.                                               *)
(***************************************************************************)
Done == pc = "done"

\* the text t as the one line print writes
Line(t) == t \o <<"\n">>

StartsWith(s, p) == Len(s) >= Len(p) /\ SubSeq(s, 1, Len(p)) = p

EndsWith(s, p) == Len(s) >= Len(p) /\ SubSeq(s, Len(s) - Len(p) + 1, Len(s)) = p

\* out is one line: it ends with its only line feed
OneLine(out) == Len(out) >= 1 /\ out[Len(out)] = "\n" /\ \A i \in 1..(Len(out) - 1) : out[i] # "\n"

\* the value of AI_LAST_MESSAGE as the scripts take it: the empty text when the variable is unset
Given == IF env.set THEN env.val ELSE <<>>

\* AI_LAST_MESSAGE is unset, empty, or made of whitespace only
Blank == \A i \in 1..Len(Given) : Given[i] \in {" ", "\t", "\n", "\r", "\f", "U+11", "U+28", "U+29", "U+30", "U+31", "U+133", "U+160"}

SchemaTemplate(line) ==
    \/ line = <<"N", "o", " ", "o", "u", "t", "p", "u", "t", " ", "r", "e", "c", "e", "i", "v", "e", "d", " ", "f", "r", "o", "m", " ", "A", "I">>
    \/ StartsWith(line, <<"O", "u", "t", "p", "u", "t", " ", "i", "s", " ", "n", "o", "t", " ", "v", "a", "l", "i", "d", " ", "J", "S", "O", "N", ":", " ">>)
    \/ StartsWith(line, <<"M", "i", "s", "s", "i", "n", "g", " ", "r", "e", "q", "u", "i", "r", "e", "d", " ", "f", "i", "e", "l", "d", "s", ":", " ">>)
    \/ line = <<"t", "r", "u", "e">>

KeywordTemplate(line) ==
    \/ line = <<"N", "o", " ", "A", "I", " ", "r", "e", "s", "p", "o", "n", "s", "e", " ", "r", "e", "c", "e", "i", "v", "e", "d">>
    \/ line = <<"t", "r", "u", "e">>
    \/ StartsWith(line, <<"E", "x", "p", "e", "c", "t", "e", "d", " ", "k", "e", "y", "w", "o", "r", "d", "s", " ", "b", "u", "t", " ", "g", "o", "t", ":", " ">>) /\ EndsWith(line, <<".", ".", ".">>)

\* the nine keywords of the keyword validator
NineKeywords == {<<"f", "i", "l", "e">>, <<"d", "i", "r", "e", "c", "t", "o", "r", "y">>, <<"h", "e", "l", "l", "o">>, <<"h", "i">>, <<"t", "e", "s", "t">>, <<"w", "o", "r", "k", "f", "l", "o", "w">>, <<".", "m", "d">>, <<".", "p", "y">>, <<".", "j", "s">>}

\* some keyword occurs in s at some position, letters compared without regard to case
HasKeyword(s) ==
    \E k \in NineKeywords : \E at \in 0..(Len(s) - Len(k)) :
        \A j \in 1..Len(k) : s[at + j] = k[j] \/ (IndexOf(s[at + j], UpperCase) > 0 /\ LowerCase[IndexOf(s[at + j], UpperCase)] = k[j])

\* the keys of the mapping that data is
KeysOf(d) == {d.items[i].s : i \in 1..Len(d.items)}

\* the names of the list l, at most three, with ", " between them
CommaList(l) ==
    IF Len(l) = 0 THEN <<>>
    ELSE IF Len(l) = 1 THEN l[1]
    ELSE IF Len(l) = 2 THEN l[1] \o <<",", " ">> \o l[2]
    ELSE l[1] \o <<",", " ">> \o l[2] \o <<",", " ">> \o l[3]

\* the required names that are not in the set keys, in the order name, description, language
Absent(keys) ==
    (IF <<"n", "a", "m", "e">> \in keys THEN <<>> ELSE <<<<"n", "a", "m", "e">>>>)
        \o (IF <<"d", "e", "s", "c", "r", "i", "p", "t", "i", "o", "n">> \in keys THEN <<>> ELSE <<<<"d", "e", "s", "c", "r", "i", "p", "t", "i", "o", "n">>>>)
        \o (IF <<"l", "a", "n", "g", "u", "a", "g", "e">> \in keys THEN <<>> ELSE <<<<"l", "a", "n", "g", "u", "a", "g", "e">>>>)

(***************************************************************************)
(* The claims.                                                             *)
(***************************************************************************)

\* C1: whatever AI_LAST_MESSAGE is, either script ends with exit status 0 after
\* printing a line, and never with an uncaught error.  The schema validator
\* does not: a message that is a JSON number, boolean or null makes
\* "f not in data" raise TypeError, which nothing catches.
C1_NoUncaughtError == Done => status = 0 /\ traceback = "" /\ stdout # <<>>

\* C2: every run writes exactly one line to standard output, and the line is
\* one of the templates of the script that ran.  Neither script does: the
\* keyword validator echoes the line feeds of the message, and the schema
\* validator prints nothing when it ends in the TypeError.
C2_OneTemplateLine ==
    Done =>
        /\ OneLine(stdout)
        /\ script = "schema" => SchemaTemplate(SubSeq(stdout, 1, Len(stdout) - 1))
        /\ script = "keyword" => KeywordTemplate(SubSeq(stdout, 1, Len(stdout) - 1))

\* C3: schema validator, a message that parses to a mapping: the output is
\* "true" when name, description and language are all keys, and otherwise
\* "Missing required fields: " and the absent ones of the three, each once,
\* in the order name, description, language, with ", " between them; the keys
\* of a generated object are those it was written with, in whatever order.
C3_MissingFieldsInOrder ==
    (Done /\ script = "schema" /\ data.t = "dict") =>
        /\ stdout = Line(IF Absent(KeysOf(data)) = <<>> THEN <<"t", "r", "u", "e">>
                         ELSE <<"M", "i", "s", "s", "i", "n", "g", " ", "r", "e", "q", "u", "i", "r", "e", "d", " ", "f", "i", "e", "l", "d", "s", ":", " ">> \o CommaList(Absent(KeysOf(data))))
        /\ status = 0
        /\ \A ks \in KeyLists : \A sep \in Separators :
              Given = ObjectText(ks, sep) => KeysOf(data) = Range(ks)

\* C3: an object whose keys come in the order language, name was judged and
\* the one absent name reported.
C3_Witness ==
    /\ Done /\ script = "schema" /\ data.t = "dict"
    /\ Given = ObjectText(<<<<"l", "a", "n", "g", "u", "a", "g", "e">>, <<"n", "a", "m", "e">>>>, <<",", " ">>)
    /\ stdout = Line(<<"M", "i", "s", "s", "i", "n", "g", " ", "r", "e", "q", "u", "i", "r", "e", "d", " ", "f", "i", "e", "l", "d", "s", ":", " ", "d", "e", "s", "c", "r", "i", "p", "t", "i", "o", "n">>)

\* C4: keyword validator, a message that is not empty: the output is "true"
\* exactly when one of the nine keywords occurs in the message, at any
\* position and without regard to case; when none occurs it is the
\* "Expected keywords but got: " line.
C4_TrueIffKeyword ==
    (Done /\ script = "keyword" /\ Given # <<>>) =>
        /\ stdout = Line(<<"t", "r", "u", "e">>) <=> HasKeyword(Given)
        /\ ~HasKeyword(Given) => StartsWith(stdout, <<"E", "x", "p", "e", "c", "t", "e", "d", " ", "k", "e", "y", "w", "o", "r", "d", "s", " ", "b", "u", "t", " ", "g", "o", "t", ":", " ">>)

\* C4: a keyword in capitals inside a longer text was found.
C4_Witness == Done /\ script = "keyword" /\ Given = <<"S", "a", "y", " ", "H", "E", "L", "L", "O">> /\ stdout = Line(<<"t", "r", "u", "e">>)

\* C5: schema validator: when AI_LAST_MESSAGE is unset, empty or whitespace
\* only, the output is "No output received from AI", the message is never
\* parsed and no other line is printed; for any other message that line is
\* never printed.
C5_BlankMessage ==
    script = "schema" =>
        /\ Blank => /\ visited \cap {"loads", "fields", "if_missing", "except"} = {}
                    /\ stdout \in {<<>>, Line(<<"N", "o", " ", "o", "u", "t", "p", "u", "t", " ", "r", "e", "c", "e", "i", "v", "e", "d", " ", "f", "r", "o", "m", " ", "A", "I">>)}
                    /\ Done => stdout = Line(<<"N", "o", " ", "o", "u", "t", "p", "u", "t", " ", "r", "e", "c", "e", "i", "v", "e", "d", " ", "f", "r", "o", "m", " ", "A", "I">>) /\ status = 0
        /\ ~Blank => /\ ~StartsWith(stdout, <<"N", "o", " ", "o", "u", "t", "p", "u", "t", " ", "r", "e", "c", "e", "i", "v", "e", "d", " ", "f", "r", "o", "m", " ", "A", "I">>)
                     /\ Done => "loads" \in visited

\* C5: a message of a tab, a carriage return and a line feed was answered.
C5_Witness ==
    /\ Done /\ script = "schema" /\ env.set /\ env.val = <<"\t", "\r", "\n">>
    /\ stdout = Line(<<"N", "o", " ", "o", "u", "t", "p", "u", "t", " ", "r", "e", "c", "e", "i", "v", "e", "d", " ", "f", "r", "o", "m", " ", "A", "I">>)

C7_EmptyExitsAtOnce ==
    /\ [](script = "keyword" =>
            /\ Given = <<>> => /\ "any" \notin visited
                               /\ stdout \in {<<>>, Line(<<"N", "o", " ", "A", "I", " ", "r", "e", "s", "p", "o", "n", "s", "e", " ", "r", "e", "c", "e", "i", "v", "e", "d">>)}
                               /\ Done => stdout = Line(<<"N", "o", " ", "A", "I", " ", "r", "e", "s", "p", "o", "n", "s", "e", " ", "r", "e", "c", "e", "i", "v", "e", "d">>) /\ status = 0
            /\ Given # <<>> => /\ "sys_exit" \notin visited
                               /\ Done => "any" \in visited)
    /\ [][pc = "sys_exit" => (pc' = "done" /\ status' = 0 /\ stdout' = stdout)]_vars

\* C7: the script ran with the variable unset, printed its line and exited with status 0.
C7_Witness ==
    /\ Done /\ script = "keyword" /\ ~env.set /\ "sys_exit" \in visited
    /\ stdout = Line(<<"N", "o", " ", "A", "I", " ", "r", "e", "s", "p", "o", "n", "s", "e", " ", "r", "e", "c", "e", "i", "v", "e", "d">>) /\ status = 0

\* C8: keyword validator, a message that is not empty and has no keyword: the
\* output is "Expected keywords but got: ", the first min(200, length)
\* characters of the message as they are, and "...", truncated or not.
C8_EchoAtMost200 ==
    (Done /\ script = "keyword" /\ Given # <<>> /\ ~HasKeyword(Given)) =>
        LET n == IF Len(Given) < 200 THEN Len(Given) ELSE 200
        IN  /\ Len(stdout) = 27 + n + 3 + 1
            /\ SubSeq(stdout, 1, 27) = <<"E", "x", "p", "e", "c", "t", "e", "d", " ", "k", "e", "y", "w", "o", "r", "d", "s", " ", "b", "u", "t", " ", "g", "o", "t", ":", " ">>
            /\ \A i \in 1..n : stdout[27 + i] = Given[i]
            /\ SubSeq(stdout, 27 + n + 1, 27 + n + 4) = <<".", ".", ".", "\n">>

\* C8: a message of more than 200 characters, capitals among them, was echoed up to the 200th.
C8_Witness ==
    /\ Done /\ script = "keyword" /\ Len(Given) > 200 /\ Given[1] = "Q" /\ ~HasKeyword(Given)
    /\ stdout = Line(<<"E", "x", "p", "e", "c", "t", "e", "d", " ", "k", "e", "y", "w", "o", "r", "d", "s", " ", "b", "u", "t", " ", "g", "o", "t", ":", " ">> \o SubSeq(Given, 1, 200) \o <<".", ".", ".">>)

C10_TrueOnlyForMapping ==
    (Done /\ script = "schema" /\ stdout = Line(<<"t", "r", "u", "e">>)) =>
        /\ data.t = "dict"
        /\ {<<"n", "a", "m", "e">>, <<"d", "e", "s", "c", "r", "i", "p", "t", "i", "o", "n">>, <<"l", "a", "n", "g", "u", "a", "g", "e">>} \subseteq KeysOf(data)

==========================================================================
